---- MODULE Spec2Model ----
(***************************************************************************)
(* Model of the test-result core of run_obfuscator.py:                     *)
(*   parse_test_results, print_detailed_test_report, run_tests (the part   *)
(*   after the runner subprocess returns), compare_test_results,           *)
(*   get_metric_value and print_test_comparison_table.                     *)
(*                                                                         *)
(* Python floats are IEEE-754 doubles.  A non-negative double below 16.0   *)
(* whose unit in the last place is at least 2^-56 is held exactly as the   *)
(* integer number of 2^-56 units, split in two 30-bit limbs                *)
(*   value = (hi * 2^30 + lo) * 2^-56.                                     *)
(* Attribute texts of the XML documents are strings; int() and float()     *)
(* are the tables IntTable and FloatTable, and any text outside a table    *)
(* raises ValueError.                                                      *)
(***************************************************************************)
EXTENDS Integers, Sequences, FiniteSets, TLC

(* ---------------------------------------------------------------- bounds *)
MaxFiles == 3

(* ------------------------------------------------------- python values *)
NoneVal == [is_none |-> TRUE]

\* bool(x) for x either None or a results dict (a dict with six keys is
\* always truthy)
Truthy(x) == "total" \in DOMAIN x

\* a missing XML attribute: element.get(name, default) returns the default
NoAttr == "<no attribute>"

\* int(text) for the texts used in the documents
IntTable == ("0" :> 0) @@ ("1" :> 1) @@ ("2" :> 2) @@ ("3" :> 3)

CanInt(v) == v = NoAttr \/ v \in DOMAIN IntTable

\* int(element.get(name, 0))
AttrInt(v) == IF v = NoAttr THEN 0 ELSE IntTable[v]

(* ------------------------------------------------------------- doubles *)
Limb == 1073741824

MantissaBits == 53

LimbBits == 30

RECURSIVE Pow2(_)
Pow2(n) == IF n = 0 THEN 1 ELSE 2 * Pow2(n - 1)

RECURSIVE BitLen(_)
BitLen(n) == IF n = 0 THEN 0 ELSE 1 + BitLen(n \div 2)

\* round the exact value hi * 2^30 + lo to the nearest double, ties to even
RoundDouble(hi, lo) ==
    LET n == IF hi = 0 THEN BitLen(lo) ELSE LimbBits + BitLen(hi)
        s == n - MantissaBits
    IN  IF s <= 0
        THEN [hi |-> hi, lo |-> lo]
        ELSE LET q    == lo \div Pow2(s)
                 rem  == lo % Pow2(s)
                 half == Pow2(s - 1)
                 up   == IF rem > half \/ (rem = half /\ q % 2 = 1) THEN 1 ELSE 0
                 lo2  == (q + up) * Pow2(s)
             IN  IF lo2 = Limb THEN [hi |-> hi + 1, lo |-> 0]
                 ELSE [hi |-> hi, lo |-> lo2]

\* a + b on doubles
FAdd(a, b) ==
    LET s == a.lo + b.lo
    IN  RoundDouble(a.hi + b.hi + s \div Limb, s % Limb)

\* a < b on doubles
FLess(a, b) == a.hi < b.hi \/ (a.hi = b.hi /\ a.lo < b.lo)

FZero == [hi |-> 0, lo |-> 0]

\* float(text) for the texts used in the documents
FloatTable ==
    ("0"   :> [hi |-> 0,         lo |-> 0]) @@
    ("0.1" :> [hi |-> 6710886,   lo |-> 429496730]) @@
    ("0.2" :> [hi |-> 13421772,  lo |-> 858993460]) @@
    ("0.3" :> [hi |-> 20132659,  lo |-> 214748364]) @@
    ("0.4" :> [hi |-> 26843545,  lo |-> 644245096]) @@
    ("0.5" :> [hi |-> 33554432,  lo |-> 0]) @@
    ("0.6" :> [hi |-> 40265318,  lo |-> 429496728]) @@
    ("0.7" :> [hi |-> 46976204,  lo |-> 858993456]) @@
    ("1.2" :> [hi |-> 80530636,  lo |-> 858993456]) @@
    ("1.9" :> [hi |-> 127506841, lo |-> 644245088])

CanFloat(v) == v = NoAttr \/ v \in DOMAIN FloatTable

\* float(element.get(name, 0))
AttrFloat(v) == IF v = NoAttr THEN FZero ELSE FloatTable[v]

\* results["total_time"] starts as the int 0 and becomes a float by the
\* first += of a float
IntZeroTime == [ty |-> "int", hi |-> 0, lo |-> 0]

AddTime(t, f) ==
    LET r == FAdd([hi |-> t.hi, lo |-> t.lo], f)
    IN  [ty |-> "float", hi |-> r.hi, lo |-> r.lo]

(* ----------------------------------------------------- report documents *)
\* a <testcase> element: name, classname and time attribute texts, and
\* whether it has a direct <failure>, <error>, <skipped> child
Case(n, c, t, f, e, s) ==
    [name |-> n, classname |-> c, time |-> t, failure |-> f, error |-> e, skipped |-> s]

\* a file of the results directory: wf = ET.parse succeeds; the root
\* attribute texts; the <testcase> descendants in document order
File(fn, wf, sn, t, f, e, s, tm, cs) ==
    [file |-> fn, wf |-> wf, name |-> sn, tests |-> t, failures |-> f, errors |-> e,
     skipped |-> s, time |-> tm, cases |-> cs]

Doc1 == File("TEST-ClassA.xml", TRUE, "ClassA", "3", "1", "0", "0", "1.2",
             << Case("t1", "ClassA", "0.4", FALSE, FALSE, FALSE),
                Case("t2", "ClassA", "0.5", TRUE, FALSE, FALSE),
                Case("t3", "ClassA", "0.3", FALSE, FALSE, FALSE) >>)

Doc2 == File("TEST-ClassB.xml", TRUE, "ClassB", "2", "0", NoAttr, "1", "0.7",
             << Case("t1", "ClassB", "0.5", FALSE, FALSE, FALSE),
                Case("t2", "ClassB", "0.2", FALSE, FALSE, TRUE) >>)

DocMalformed == File("TEST-broken.xml", FALSE, "X", "1", "0", "0", "0", "0.1", << >>)

DocBadTests == File("TEST-badtests.xml", TRUE, "X", "abc", "1", "0", "0", "0.1", << >>)

DocBadErrors == File("TEST-baderrors.xml", TRUE, "X", "2", "1", "x", "0", "0.1", << >>)

DocBadSkipped == File("TEST-badskipped.xml", TRUE, "X", "2", "0", "1", "1.5", "0.1", << >>)

DocBadTime == File("TEST-badtime.xml", TRUE, "X", "1", "0", "0", "1", "abc", << >>)

DocBadCase == File("TEST-badcase.xml", TRUE, "ClassC", "2", "0", "0", "0", "0.3",
                   << Case("t1", "ClassC", "0.1", FALSE, FALSE, FALSE),
                      Case("t2", "ClassC", "abc", FALSE, FALSE, FALSE) >>)

DocBoth == File("TEST-both.xml", TRUE, "ClassD", "1", "1", "0", "1", "0.1",
                << Case("t1", "ClassD", "0.1", TRUE, FALSE, TRUE) >>)

DocEmpty == File("TEST-empty.xml", TRUE, NoAttr, NoAttr, NoAttr, NoAttr, NoAttr, NoAttr, << >>)

DocError == File("TEST-ClassA2.xml", TRUE, "ClassA", "1", "0", "1", "0", "0.2",
                 << Case("t1", "ClassA", "0.2", FALSE, TRUE, FALSE) >>)

DocPass == File("TEST-ClassE.xml", TRUE, "ClassE", "1", "0", "0", "0", "0.3",
                << Case(NoAttr, NoAttr, NoAttr, FALSE, FALSE, FALSE) >>)

DocTie == File("TEST-ClassF.xml", TRUE, "ClassF", "2", "0", "0", "0", "0.7",
               << Case("t1", "ClassF", "0.4", FALSE, FALSE, FALSE),
                  Case("t2", "ClassF", "0.4", FALSE, FALSE, FALSE) >>)

NotXml == File("index.html", FALSE, "X", "1", "0", "0", "0", "0.1", << >>)

Files == { Doc1, Doc2, DocMalformed, DocBadTests, DocBadErrors, DocBadSkipped, DocBadTime,
           DocBadCase, DocBoth, DocEmpty, DocError, DocPass, DocTie, NotXml }

\* f.endswith(".xml") for the file names used
XmlNames == { d.file : d \in Files \ {NotXml} }

EndsWithXml(fn) == fn \in XmlNames

\* the sequences os.listdir can return: distinct files, in any order
Injective(q) == \A a, b \in DOMAIN q : a # b => q[a].file # q[b].file

Listings == UNION { { q \in [1..n -> Files] : Injective(q) } : n \in 0..MaxFiles }

(* --------------------------------------------------- parse_test_results *)
EmptyResults ==
    [total |-> 0, passed |-> 0, failed |-> 0, skipped |-> 0, tests |-> << >>,
     total_time |-> IntZeroTime]

RECURSIVE SelectXml(_)
SelectXml(q) ==
    IF q = << >> THEN << >>
    ELSE IF EndsWithXml(Head(q).file) THEN << Head(q) >> \o SelectXml(Tail(q))
         ELSE SelectXml(Tail(q))

\* a mutation of AddCount: plain assignment instead of +=
AddCountOverwrite(acc, n) == n

\* acc += n on the int counters
AddCount(acc, n) == acc + n

\* a mutation of FailedIncrement: the errors attribute is not counted
FailedIncrementNoErrors(doc) == AttrInt(doc.failures)

\* a mutation of FailedIncrement: skipped tests are counted as failed too
FailedIncrementWithSkipped(doc) ==
    AttrInt(doc.failures) + AttrInt(doc.errors)
        + (IF doc.skipped \in DOMAIN IntTable THEN IntTable[doc.skipped] ELSE 0)

\* int(failures) + int(errors)
FailedIncrement(doc) == AttrInt(doc.failures) + AttrInt(doc.errors)

\* the statements before the test-case loop, for one document; raised = an
\* exception left the try body, results = the dict at that moment
SuiteStep(res, doc) ==
    IF ~doc.wf THEN [results |-> res, raised |-> TRUE]
    ELSE IF ~CanInt(doc.tests) THEN [results |-> res, raised |-> TRUE]
    ELSE LET r1 == [res EXCEPT !.total = AddCount(@, AttrInt(doc.tests))]
    IN  IF ~CanInt(doc.failures) \/ ~CanInt(doc.errors) THEN [results |-> r1, raised |-> TRUE]
    ELSE LET r2 == [r1 EXCEPT !.failed = AddCount(@, FailedIncrement(doc))]
    IN  IF ~CanInt(doc.skipped) THEN [results |-> r2, raised |-> TRUE]
    ELSE LET r3 == [r2 EXCEPT !.skipped = AddCount(@, AttrInt(doc.skipped))]
    IN  IF ~CanFloat(doc.time) THEN [results |-> r3, raised |-> TRUE]
    ELSE [results |-> [r3 EXCEPT !.total_time = AddTime(@, AttrFloat(doc.time))],
          raised |-> FALSE]

\* element.get(name, "Unknown")
AttrText(v) == IF v = NoAttr THEN "Unknown" ELSE v

\* the status of one test case: the failure/error check, then the skipped
\* check, each an assignment
CaseStatus(c) ==
    LET s1 == IF c.failure \/ c.error THEN "FAILED" ELSE "PASSED"
    IN  IF c.skipped THEN "SKIPPED" ELSE s1

\* one iteration of the test-case loop
CaseStep(res, doc, c) ==
    IF ~CanFloat(c.time) THEN [results |-> res, raised |-> TRUE]
    ELSE LET test_info == [suite |-> AttrText(doc.name), name |-> AttrText(c.name),
                           class |-> AttrText(c.classname), time |-> AttrFloat(c.time),
                           status |-> CaseStatus(c)]
         IN  [results |-> [res EXCEPT !.tests = Append(@, test_info)], raised |-> FALSE]

\* a mutation of DerivePassed: the skipped count is not subtracted
DerivePassedNoSkipped(res) == res.total - res.failed

\* results["passed"] at the end
DerivePassed(res) == res.total - res.failed - res.skipped

\* a mutation of AfterError: the first exception ends the loop over the files
AfterErrorBreak(i, n) == n + 1

\* the index of the file processed after the except handler ran for file i
AfterError(i, n) == i + 1

\* the try body for one document, from results res: the dict at the end of
\* the body or at the exception, and whether the handler ran
RECURSIVE CasesFrom(_, _, _)
CasesFrom(res, doc, k) ==
    IF k > Len(doc.cases) THEN [results |-> res, raised |-> FALSE]
    ELSE LET c == CaseStep(res, doc, doc.cases[k])
         IN  IF c.raised THEN c ELSE CasesFrom(c.results, doc, k + 1)

ParseDoc(res, doc) ==
    LET s == SuiteStep(res, doc)
    IN  IF s.raised THEN s ELSE CasesFrom(s.results, doc, 1)

\* the loop over xml_files from index k
RECURSIVE FoldFrom(_, _, _)
FoldFrom(res, q, k) ==
    IF k > Len(q) THEN res
    ELSE LET d == ParseDoc(res, q[k])
         IN  FoldFrom(d.results, q, IF d.raised THEN AfterError(k, Len(q)) ELSE k + 1)

\* parse_test_results as a function of the directory
parse_test_results(exists, listing) ==
    IF ~exists THEN NoneVal
    ELSE LET r == FoldFrom(EmptyResults, SelectXml(listing), 1)
         IN  [r EXCEPT !.passed = DerivePassed(r)]

(* ------------------------------------------- print_detailed_test_report *)
StatusRank(t) == IF t.status = "FAILED" THEN 0 ELSE IF t.status = "SKIPPED" THEN 1 ELSE 2

\* a mutation of KeyLess: the time is not negated in the key
KeyLessAscendingTime(a, b) ==
    StatusRank(a) < StatusRank(b) \/ (StatusRank(a) = StatusRank(b) /\ FLess(a.time, b.time))

\* key(a) < key(b) for the key (rank, -time)
KeyLess(a, b) ==
    StatusRank(a) < StatusRank(b) \/ (StatusRank(a) = StatusRank(b) /\ FLess(b.time, a.time))

\* sorted(): stable, ascending by key
RECURSIVE InsertSorted(_, _)
InsertSorted(q, x) ==
    IF q = << >> THEN << x >>
    ELSE IF KeyLess(x, Head(q)) THEN << x >> \o q
         ELSE << Head(q) >> \o InsertSorted(Tail(q), x)

RECURSIVE SortedTests(_)
SortedTests(q) ==
    IF q = << >> THEN << >>
    ELSE InsertSorted(SortedTests(SubSeq(q, 1, Len(q) - 1)), q[Len(q)])

\* exc: the exception that leaves the function; out: what was printed
\* before that ("notice" = "No test results available.", "header" = the
\* title block and the "Total Tests" line of lines 436-440, "summary" = the
\* summary block and the table rows)
print_detailed_test_report(res) ==
    IF ~Truthy(res) THEN [exc |-> "none", out |-> "notice", rows |-> << >>]
    ELSE IF res.total = 0 THEN [exc |-> "ZeroDivisionError", out |-> "header", rows |-> << >>]
    ELSE [exc |-> "none", out |-> "summary", rows |-> SortedTests(res.tests)]

(* ------------------------------------------------------------ run_tests *)
\* the statements of run_tests after the runner subprocess returned, for
\* the value parse_test_results returned and the runner's return code
run_tests(test_results, returncode) ==
    LET rep == IF Truthy(test_results) THEN print_detailed_test_report(test_results)
               ELSE [exc |-> "none", out |-> "no_detail", rows |-> << >>]
    IN  IF rep.exc # "none"
        THEN [success |-> FALSE, results |-> NoneVal, out |-> rep.out, exc |-> rep.exc]
        ELSE [success |-> returncode = 0, results |-> test_results, out |-> rep.out,
              exc |-> "none"]

(* ------------------------------------------------- numbers of a report *)
\* a Python int
PyInt(n) == [ty |-> "int", num |-> n, den |-> 1]

RECURSIVE Gcd(_, _)
Gcd(a, b) == IF b = 0 THEN a ELSE Gcd(b, a % b)

Abs(n) == IF n < 0 THEN 0 - n ELSE n

\* p / t * 100 on Python ints: ZeroDivisionError for t = 0, otherwise the
\* double (num / den) * 100 with num / den = p / t in lowest terms (equal
\* quotients divide to the same double, and for counts this small different
\* quotients give different doubles)
TrueDivTimes100(p, t) ==
    IF t = 0 THEN [ty |-> "ZeroDivisionError", num |-> 0, den |-> 1]
    ELSE LET g == Gcd(Abs(p), Abs(t))
         IN  [ty |-> "float", num |-> p \div g, den |-> t \div g]

\* a < b on two pass rates (an int n is num = n, den = 1)
NumLess(a, b) == a.num * b.den < b.num * a.den

(* ------------------------------------------------- compare_test_results *)
\* the pass-rate expressions of the metrics list
ComparePassRate(res) ==
    IF res.total > 0 THEN TrueDivTimes100(res.passed, res.total) ELSE PyInt(0)

\* the metrics list
CompareMetrics(original, other) ==
    << << "Total Tests", PyInt(original.total), PyInt(other.total) >>,
       << "Passed Tests", PyInt(original.passed), PyInt(other.passed) >>,
       << "Failed Tests", PyInt(original.failed), PyInt(other.failed) >>,
       << "Skipped Tests", PyInt(original.skipped), PyInt(other.skipped) >>,
       << "Pass Rate (%)", ComparePassRate(original), ComparePassRate(other) >>,
       << "Total Execution Time (s)", original.total_time, other.total_time >> >>

\* the row is printed with the d format when the original value is an int,
\* and format(float, "d") raises ValueError
RowRaises(row) == row[2].ty = "int" /\ row[3].ty = "float"

\* a mutation of IntDiff: the values are added
IntDiffSum(original_value, other_value) == other_value + original_value

\* other_value - original_value on Python ints
IntDiff(original_value, other_value) == other_value - original_value

\* b - a on two doubles held as limb pairs: the sign and the magnitude of
\* the correctly rounded difference
FSub(b, a) ==
    LET neg    == FLess(b, a)
        big    == IF neg THEN a ELSE b
        small  == IF neg THEN b ELSE a
        borrow == IF big.lo < small.lo THEN 1 ELSE 0
        r      == RoundDouble(big.hi - small.hi - borrow, big.lo + borrow * Limb - small.lo)
    IN  [ty |-> "float", sign |-> IF neg THEN 0 - 1 ELSE 1, hi |-> r.hi, lo |-> r.lo]

\* diff = other_value - original_value for one row of the metrics list.
\* Counts are ints; the two total_time values are doubles (or the int 0)
\* and the difference is computed exactly; the difference of two pass rates
\* is the double minuend - subtrahend, kept as its two operands
MetricDiff(row) ==
    IF "hi" \in DOMAIN row[2]
    THEN IF row[2].ty = "int" /\ row[3].ty = "int"
         THEN PyInt(IntDiff(row[2].hi, row[3].hi))
         ELSE FSub(row[3], row[2])
    ELSE IF row[2].ty = "int" /\ row[3].ty = "int"
         THEN PyInt(IntDiff(row[2].num, row[3].num))
         ELSE [ty |-> "float", minuend |-> row[3], subtrahend |-> row[2]]

\* the rows the loop of lines 548-554 prints: all of them, or those before
\* the first row whose print raises
RECURSIVE PrintedRows(_, _)
PrintedRows(m, k) ==
    IF k > Len(m) \/ RowRaises(m[k]) THEN << >>
    ELSE << << m[k][1], m[k][2], m[k][3], MetricDiff(m[k]) >> >> \o PrintedRows(m, k + 1)

\* f"{test['class']}::{test['name']}"
TestKey(test) == test.class \o "::" \o test.name

\* the identities of the documents, in the ascending order of Python's
\* string comparison
KeyOrder ==
    << "ClassA::t1", "ClassA::t2", "ClassA::t3", "ClassB::t1", "ClassB::t2", "ClassC::t1",
       "ClassD::t1", "ClassF::t1", "ClassF::t2", "Unknown::Unknown" >>

\* sorted(keys) for a set of identities
SortedKeys(keys) == SelectSeq(KeyOrder, LAMBDA k : k \in keys)

\* {key: test for test in tests}: a later test replaces an earlier one of
\* the same identity
TestMethods(tests) ==
    [ k \in { TestKey(tests[n]) : n \in DOMAIN tests } |->
        tests[CHOOSE n \in DOMAIN tests :
                 /\ TestKey(tests[n]) = k
                 /\ \A m \in DOMAIN tests : TestKey(tests[m]) = k => m <= n] ]

\* the lines printed under "Tests only in ...": identity and status
UniqueLines(methods, keys) ==
    LET q == SortedKeys(keys)
    IN  [ n \in DOMAIN q |-> << q[n], methods[q[n]].status >> ]

\* sorted(status_changes): the tuples are ordered by their identity, which
\* is different in every tuple
StatusChanges(original_test_methods, other_test_methods) ==
    LET common_tests == DOMAIN original_test_methods \cap DOMAIN other_test_methods
        changed == { k \in common_tests :
                        original_test_methods[k].status # other_test_methods[k].status }
        q == SortedKeys(changed)
    IN  [ n \in DOMAIN q |->
            << q[n], original_test_methods[q[n]].status, other_test_methods[q[n]].status >> ]

\* what a call that printed nothing below the metric table leaves
NoIdentities == [original_unique |-> << >>, other_unique |-> << >>, status_changes |-> << >>]

\* lines 559-594
CompareIdentities(original, other) ==
    LET original_test_methods == TestMethods(original.tests)
        other_test_methods == TestMethods(other.tests)
    IN  [original_unique |->
            UniqueLines(original_test_methods,
                        DOMAIN original_test_methods \ DOMAIN other_test_methods),
         other_unique |->
            UniqueLines(other_test_methods,
                        DOMAIN other_test_methods \ DOMAIN original_test_methods),
         status_changes |-> StatusChanges(original_test_methods, other_test_methods)]

\* a mutation of MissingSide: only a call without both sides is refused
MissingSideBoth(original, other) == ~Truthy(original) /\ ~Truthy(other)

\* not original_results or not other_results
MissingSide(original, other) == ~Truthy(original) \/ ~Truthy(other)

\* the notice for a missing side, or the metric table and the identity
\* lists (subscripting None at line 539 would raise TypeError); exc = the exception that leaves the function, printed = the rows
\* of the metric table that were printed, each with its difference
compare_test_results(original, other) ==
    IF MissingSide(original, other)
    THEN [out |-> "notice", metrics |-> << >>, exc |-> "none", printed |-> << >>,
          identities |-> NoIdentities]
    ELSE IF ~Truthy(original) \/ ~Truthy(other)
    THEN [out |-> "header", metrics |-> << >>, exc |-> "TypeError", printed |-> << >>,
          identities |-> NoIdentities]
    ELSE LET m == CompareMetrics(original, other)
         IN  IF \E k \in DOMAIN m : "ZeroDivisionError" \in {m[k][2].ty, m[k][3].ty}
             THEN [out |-> "header", metrics |-> << >>, exc |-> "ZeroDivisionError",
                   printed |-> << >>, identities |-> NoIdentities]
             ELSE IF \E k \in DOMAIN m : RowRaises(m[k])
             THEN [out |-> "table", metrics |-> m, exc |-> "ValueError",
                   printed |-> PrintedRows(m, 1), identities |-> NoIdentities]
             ELSE [out |-> "table", metrics |-> m, exc |-> "none",
                   printed |-> PrintedRows(m, 1),
                   identities |-> CompareIdentities(original, other)]

\* a mutation of ArgumentsAfter: the tests lists are sorted in place
ArgumentsAfterSortInPlace(original, other) ==
    IF MissingSide(original, other) THEN << original, other >>
    ELSE << [original EXCEPT !.tests = SortedTests(@)], [other EXCEPT !.tests = SortedTests(@)] >>

\* the two dicts the caller passed, as the call leaves them: the function
\* subscripts and iterates them, builds new dicts and sets from them and
\* sorts copies (sorted()), and assigns to none of them
ArgumentsAfter(original, other) == << original, other >>

(* ------------------------------------------- print_test_comparison_table *)
MetricNames ==
    << "Total Tests", "Passed Tests", "Failed Tests", "Skipped Tests", "Pass Rate (%)",
       "Total Execution Time (s)" >>

\* a mutation of get_metric_value: the pass rate is computed without the
\* total > 0 guard
get_metric_value_unguarded(res, metric) ==
    IF ~Truthy(res) THEN NoneVal
    ELSE IF metric = "Total Tests" THEN PyInt(res.total)
    ELSE IF metric = "Passed Tests" THEN PyInt(res.passed)
    ELSE IF metric = "Failed Tests" THEN PyInt(res.failed)
    ELSE IF metric = "Skipped Tests" THEN PyInt(res.skipped)
    ELSE IF metric = "Pass Rate (%)" THEN TrueDivTimes100(res.passed, res.total)
    ELSE IF metric = "Total Execution Time (s)" THEN res.total_time
    ELSE NoneVal

get_metric_value(res, metric) ==
    IF ~Truthy(res) THEN NoneVal
    ELSE IF metric = "Total Tests" THEN PyInt(res.total)
    ELSE IF metric = "Passed Tests" THEN PyInt(res.passed)
    ELSE IF metric = "Failed Tests" THEN PyInt(res.failed)
    ELSE IF metric = "Skipped Tests" THEN PyInt(res.skipped)
    ELSE IF metric = "Pass Rate (%)"
         THEN (IF res.total > 0 THEN TrueDivTimes100(res.passed, res.total) ELSE PyInt(0))
    ELSE IF metric = "Total Execution Time (s)" THEN res.total_time
    ELSE NoneVal

\* "N/A" for None; otherwise the value with the format the metric selects
format_metric_value(value, metric) ==
    IF value = NoneVal THEN [text |-> "N/A"]
    ELSE IF metric \in {"Pass Rate (%)", "Total Execution Time (s)"}
         THEN [text |-> ".2f", value |-> value]
         ELSE [text |-> "str", value |-> value]

\* the pass rates of one pairwise summary
SummaryPassRate(res) ==
    IF res.total > 0 THEN TrueDivTimes100(res.passed, res.total) ELSE PyInt(0)

\* one pairwise summary line: the two rates and which branch printed
SummaryLine(pair, first, second) ==
    LET a == SummaryPassRate(first)
        b == SummaryPassRate(second)
    IN  [pair |-> pair, first_rate |-> a, second_rate |-> b,
         verdict |-> IF NumLess(b, a) THEN "first higher"
                     ELSE IF NumLess(a, b) THEN "second higher" ELSE "same"]

MethodNames(res) == { res.tests[k].name : k \in DOMAIN res.tests }

\* the notice when all three are missing; otherwise the metric rows, the
\* method coverage (when all three are present) and the summary lines
print_test_comparison_table(original, bodies, names) ==
    IF ~Truthy(original) /\ ~Truthy(bodies) /\ ~Truthy(names)
    THEN [out |-> "notice", rows |-> << >>, coverage |-> << >>, summary |-> << >>]
    ELSE [out |-> "table",
          rows |-> [k \in DOMAIN MetricNames |->
                      << format_metric_value(get_metric_value(original, MetricNames[k]), MetricNames[k]),
                         format_metric_value(get_metric_value(bodies, MetricNames[k]), MetricNames[k]),
                         format_metric_value(get_metric_value(names, MetricNames[k]), MetricNames[k]) >>],
          coverage |->
              IF Truthy(original) /\ Truthy(bodies) /\ Truthy(names)
              THEN [m \in MethodNames(original) \cup MethodNames(bodies) \cup MethodNames(names) |->
                      << m \in MethodNames(original), m \in MethodNames(bodies),
                         m \in MethodNames(names) >>]
              ELSE << >>,
          summary |->
              (IF Truthy(original) /\ Truthy(bodies)
               THEN << SummaryLine("bodies/original", bodies, original) >> ELSE << >>)
              \o (IF Truthy(original) /\ Truthy(names)
                  THEN << SummaryLine("names/original", names, original) >> ELSE << >>)
              \o (IF Truthy(bodies) /\ Truthy(names)
                  THEN << SummaryLine("bodies/names", bodies, names) >> ELSE << >>)]

(* ------------------------------------------------------------- state *)
VARIABLES dir_exists, dir_files, pc, xml_files, i, j, results, logged, ret, report, rt,
          original_results, bodies_results, names_results, call,
          variant, source_code, test_code, test_dir, dir_owner, built_from, trace, invoked

parser_vars == << dir_exists, dir_files, xml_files, i, j, results, logged, ret, report, rt >>

report_vars == << original_results, bodies_results, names_results, call >>

\* the state of the main script: the variant being processed, the source
\* text read for it, the generated test code of each variant, the test
\* source directory, the variant whose run wrote the reports now in the
\* results directory, for each ResultSet the writer of the reports it was
\* parsed from, the calls made so far, and the external invocations made
main_vars == << variant, source_code, test_code, test_dir, dir_owner, built_from, trace, invoked >>

vars == << parser_vars, pc, report_vars, main_vars >>

NoCall == [fn |-> "none"]

NotCalled == [exc |-> "none", out |-> "not called", rows |-> << >>]

NotRun == [success |-> FALSE, results |-> NoneVal, out |-> "not called", exc |-> "none"]

\* a Python str
Text(t) == [text |-> t]

\* bool(x) for x either None or a str
TruthyText(x) == "text" \in DOMAIN x /\ x.text # ""

\* lines 799-802 and 826-828: nothing generated, nothing run
NoTestCode == [original |-> NoneVal, bodies |-> NoneVal, names |-> NoneVal]

NotBuilt == [original |-> "none", bodies |-> "none", names |-> "none"]

\* the main script has not started
MainIdle ==
    /\ variant = "none"
    /\ source_code = NoneVal
    /\ test_code = NoTestCode
    /\ test_dir = [exists |-> FALSE, files |-> {}]
    /\ dir_owner = "none"
    /\ built_from = NotBuilt
    /\ trace = << >>
    /\ invoked = {}

Init ==
    /\ dir_exists \in BOOLEAN
    /\ dir_files \in Listings
    /\ (~dir_exists => dir_files = << >>)
    /\ pc = "start"
    /\ xml_files = << >>
    /\ i = 0
    /\ j = 0
    /\ results = NoneVal
    /\ logged = << >>
    /\ ret = NoneVal
    /\ report = NotCalled
    /\ rt = NotRun
    /\ original_results = NoneVal
    /\ bodies_results = NoneVal
    /\ names_results = NoneVal
    /\ call = NoCall
    /\ MainIdle

\* lines 360-377: the directory test, the fresh dict, the listing
ParseStart ==
    /\ pc = "start"
    /\ IF ~dir_exists
       THEN /\ pc' = "returned"
            /\ ret' = NoneVal
            /\ UNCHANGED << results, xml_files, i >>
       ELSE /\ pc' = "loop"
            /\ results' = EmptyResults
            /\ xml_files' = SelectXml(dir_files)
            /\ i' = 1
            /\ UNCHANGED ret
    /\ UNCHANGED << dir_exists, dir_files, j, logged, report, rt, report_vars, main_vars >>

\* lines 380-392 for file i, and the handler of line 424 when they raise
ReadSuite ==
    /\ pc = "loop"
    /\ i <= Len(xml_files)
    /\ LET s == SuiteStep(results, xml_files[i])
       IN  /\ results' = s.results
           /\ IF s.raised
              THEN /\ logged' = Append(logged, xml_files[i].file)
                   /\ i' = AfterError(i, Len(xml_files))
                   /\ UNCHANGED << pc, j >>
              ELSE /\ pc' = "cases"
                   /\ j' = 1
                   /\ UNCHANGED << logged, i >>
    /\ UNCHANGED << dir_exists, dir_files, xml_files, ret, report, rt, report_vars, main_vars >>

\* lines 395-422 for test case j of file i, and the handler when they raise
ReadTestcase ==
    /\ pc = "cases"
    /\ j <= Len(xml_files[i].cases)
    /\ LET c == CaseStep(results, xml_files[i], xml_files[i].cases[j])
       IN  /\ results' = c.results
           /\ IF c.raised
              THEN /\ logged' = Append(logged, xml_files[i].file)
                   /\ i' = AfterError(i, Len(xml_files))
                   /\ pc' = "loop"
                   /\ UNCHANGED j
              ELSE /\ j' = j + 1
                   /\ UNCHANGED << logged, i, pc >>
    /\ UNCHANGED << dir_exists, dir_files, xml_files, ret, report, rt, report_vars, main_vars >>

\* the test-case loop of file i is exhausted: next file
NextFile ==
    /\ pc = "cases"
    /\ j > Len(xml_files[i].cases)
    /\ pc' = "loop"
    /\ i' = i + 1
    /\ UNCHANGED << dir_exists, dir_files, xml_files, j, results, logged, ret, report, rt, report_vars, main_vars >>

\* lines 427-428
ParseReturn ==
    /\ pc = "loop"
    /\ i > Len(xml_files)
    /\ results' = [results EXCEPT !.passed = DerivePassed(results)]
    /\ ret' = results'
    /\ pc' = "returned"
    /\ UNCHANGED << dir_exists, dir_files, xml_files, i, j, logged, report, rt, report_vars, main_vars >>

\* lines 507-521: run_tests continues with the value returned
RunTests ==
    /\ pc = "returned"
    /\ \E returncode \in {0, 1} : rt' = run_tests(ret, returncode)
    /\ pc' = "ran"
    /\ UNCHANGED << dir_exists, dir_files, xml_files, i, j, results, logged, ret, report, report_vars, main_vars >>

\* print_detailed_test_report called with the value returned
PrintDetailedTestReport ==
    /\ pc = "returned"
    /\ report' = print_detailed_test_report(ret)
    /\ pc' = "reported"
    /\ UNCHANGED << dir_exists, dir_files, xml_files, i, j, results, logged, ret, rt, report_vars, main_vars >>

Next ==
    \/ ParseStart
    \/ ReadSuite
    \/ ReadTestcase
    \/ NextFile
    \/ ParseReturn
    \/ RunTests
    \/ PrintDetailedTestReport

Spec == Init /\ [][Next]_vars

(* ------------------------------------------------------ the main script *)
\* the three variants, in the order the script processes them
Variants == << "original", "bodies", "names" >>

\* the test file of a variant for the default class name Main
TestFile(v) ==
    IF v = "original" THEN "LLMGeneratedMainTest.java"
    ELSE IF v = "bodies" THEN "LLMGeneratedMainBodiesTest.java"
    ELSE "LLMGeneratedMainNamesTest.java"

\* the timeout of the generation request, in seconds
OllamaTimeout == 180

\* the timeout argument of each external invocation; None = no timeout
TimeoutOf ==
    [clean |-> NoneVal, spoonObfuscate |-> NoneVal, test |-> NoneVal, deobfuscate |-> NoneVal,
     generate |-> [seconds |-> OllamaTimeout]]

\* how an external invocation can end: it returns with success or with
\* failure, it raises, or the collaborator never answers; then a call with
\* a timeout raises the timeout exception and a call without one never
\* returns
Outcomes(command) ==
    {"ok", "failed", "raised"}
        \cup (IF TimeoutOf[command] = NoneVal THEN {"blocked"} ELSE {"timeout"})

\* an invocation returned when it ended with a return code or a response
CallReturned(outcome) == outcome \in {"ok", "failed"}

Invoke(command, outcome) ==
    invoked' = invoked \cup { [command |-> command, timeout |-> TimeoutOf[command],
                                returned |-> CallReturned(outcome)] }

Log(fn, v, ok) == trace' = Append(trace, [fn |-> fn, variant |-> v, ok |-> ok])

Goto(p, v) == pc' = p /\ variant' = v

\* the statement after the generation stage of variant v (lines 807, 816, 825)
NextGeneration(v) ==
    IF v = "original" THEN Goto("obf", "bodies")
    ELSE IF v = "bodies" THEN Goto("obf", "names")
    ELSE Goto("clean_dir", "original")

\* the statement after the run stage of variant v (lines 843, 855, 869)
NextRun(v) ==
    IF v = "original" THEN Goto("clean_dir", "bodies")
    ELSE IF v = "bodies" THEN Goto("clean_dir", "names")
    ELSE Goto("compare", "bodies")

ResultsOf(v) ==
    IF v = "original" THEN original_results
    ELSE IF v = "bodies" THEN bodies_results
    ELSE names_results

SetResults(v, r) ==
    /\ original_results' = IF v = "original" THEN r ELSE original_results
    /\ bodies_results' = IF v = "bodies" THEN r ELSE bodies_results
    /\ names_results' = IF v = "names" THEN r ELSE names_results

\* the report directories a run of the test task can leave
RunnerListings == { << >>, << Doc1 >>, << Doc2 >>, << DocBadSkipped >> }

\* what run_tests returns from its except handler
RunFailed == [success |-> FALSE, results |-> NoneVal, out |-> "error", exc |-> "none"]

\* the variables of the parser and of the report that the main script
\* model does not use
idle_vars == << xml_files, i, j, results, logged, report >>

result_vars == << original_results, bodies_results, names_results >>

results_dir == << dir_exists, dir_files, dir_owner >>

\* the script starts: the results directory may hold the reports of an
\* earlier execution, the test source directory may hold an old test file
InitMain ==
    /\ pc = "clean"
    /\ variant = "none"
    /\ dir_exists \in BOOLEAN
    /\ dir_files \in {<< >>, << Doc2 >>}
    /\ (~dir_exists => dir_files = << >>)
    /\ dir_owner = IF dir_exists THEN "earlier" ELSE "none"
    /\ test_dir \in { [exists |-> FALSE, files |-> {}], [exists |-> TRUE, files |-> {}],
                      [exists |-> TRUE, files |-> {TestFile("names")}] }
    /\ xml_files = << >>
    /\ i = 0
    /\ j = 0
    /\ results = NoneVal
    /\ logged = << >>
    /\ ret = NoneVal
    /\ report = NotCalled
    /\ rt = NotRun
    /\ original_results = NoneVal
    /\ bodies_results = NoneVal
    /\ names_results = NoneVal
    /\ call = NoCall
    /\ source_code = NoneVal
    /\ test_code = NoTestCode
    /\ built_from = NotBuilt
    /\ trace = << >>
    /\ invoked = {}

\* line 794: ./gradlew clean, return code ignored, no try around it. A
\* clean that ends with code 0 has removed the build directory; one whose
\* call raises (its output cannot be decoded, say) or never ends may have
\* removed it before that
GradlewClean ==
    /\ pc = "clean"
    /\ \E o \in Outcomes("clean"), removed \in BOOLEAN :
          /\ (o = "ok" => removed)
          /\ (o = "failed" => ~removed)
          /\ Invoke("clean", o)
          /\ IF removed
             THEN /\ dir_exists' = FALSE
                  /\ dir_files' = << >>
                  /\ dir_owner' = "none"
             ELSE UNCHANGED results_dir
          /\ IF CallReturned(o) THEN Goto("read", "original")
             ELSE /\ pc' = IF o = "raised" THEN "crashed" ELSE "blocked"
                  /\ UNCHANGED variant
    /\ Log("gradlew clean", "none", TRUE)
    /\ UNCHANGED << idle_vars, ret, rt, result_vars, call, source_code, test_code, test_dir,
                    built_from >>

\* get_and_print_code (lines 798, 810, 819): the content, "" for an empty
\* file, None when the file cannot be read
GetAndPrintCode ==
    /\ pc = "read"
    /\ source_code' \in {NoneVal, Text(""), Text("java")}
    /\ pc' = "gen"
    /\ Log("get_and_print_code", variant, source_code' # NoneVal)
    /\ UNCHANGED << idle_vars, ret, rt, result_vars, call, variant, test_code, test_dir,
                    results_dir, built_from, invoked >>

\* lines 804-805, 811-812, 820-821 with a non-empty source text:
\* generate_tests_with_llm posts the request and returns the cleaned code,
\* which always holds the import lines, or None after any exception
GenerateTestsWithLlm ==
    /\ pc = "gen"
    /\ TruthyText(source_code)
    /\ \E o \in Outcomes("generate") :
          /\ Invoke("generate", o)
          /\ test_code' = [test_code EXCEPT ![variant] = IF o = "ok" THEN Text("test") ELSE NoneVal]
          /\ Log("generate_tests_with_llm", variant, o = "ok")
    /\ NextGeneration(variant)
    /\ UNCHANGED << idle_vars, ret, rt, result_vars, call, source_code, test_dir, results_dir,
                    built_from >>

\* the same lines with no source text: nothing is requested
SkipGeneration ==
    /\ pc = "gen"
    /\ ~TruthyText(source_code)
    /\ NextGeneration(variant)
    /\ UNCHANGED << idle_vars, ret, rt, result_vars, call, source_code, test_code, test_dir,
                    results_dir, built_from, trace, invoked >>

\* execute_gradle_obfuscation (lines 808, 817): True for return code 0,
\* False for another return code or an exception
ExecuteGradleObfuscation ==
    /\ pc = "obf"
    /\ \E o \in Outcomes("spoonObfuscate") :
          /\ Invoke("spoonObfuscate", o)
          /\ Log("execute_gradle_obfuscation", variant, o = "ok")
          /\ IF o = "ok" THEN pc' = "read" /\ UNCHANGED variant
             ELSE IF o = "blocked" THEN pc' = "blocked" /\ UNCHANGED variant
             ELSE NextGeneration(variant)
    /\ UNCHANGED << idle_vars, ret, rt, result_vars, call, source_code, test_code, test_dir,
                    results_dir, built_from >>

\* clean_test_directory (lines 831, 843, 855): the directory is created, or
\* its .java files are removed, each unless os.remove raises OSError. The
\* os.makedirs of line 22 (a regular file stands at the path, say) and the
\* os.listdir of line 27 can raise; nothing catches that, in the function
\* or in the script, and the script ends there
CleanTestDirectory ==
    /\ pc = "clean_dir"
    /\ \E raised \in BOOLEAN :
          /\ IF raised THEN UNCHANGED test_dir
             ELSE IF ~test_dir.exists THEN test_dir' = [exists |-> TRUE, files |-> {}]
             ELSE \E kept \in SUBSET test_dir.files :
                     test_dir' = [exists |-> TRUE, files |-> kept]
          /\ pc' = IF raised THEN "crashed" ELSE "save"
          /\ Log("clean_test_directory", variant, ~raised)
    /\ UNCHANGED << idle_vars, ret, rt, result_vars, call, variant, source_code, test_code,
                    results_dir, built_from, invoked >>

\* a mutation of StageAfterSave: the value save_test_to_file returned is
\* not tested
StageAfterSaveUnchecked(v, ok) == IF v = "names" THEN "deobf" ELSE "run"

\* the ifs of lines 834, 846 and 858: after a successful save the test run
\* (for names the deobfuscation first), otherwise the variant is skipped
StageAfterSave(v, ok) ==
    IF ok THEN IF v = "names" THEN "deobf" ELSE "run"
    ELSE "skip"

\* lines 832-834, 844-846, 856-858 with test code: save_test_to_file
\* returns True after writing the file, False after an exception; the
\* exception comes before the file is opened at line 349, or from the
\* write of line 350, which leaves the file that open created
SaveTestToFile ==
    /\ pc = "save"
    /\ TruthyText(test_code[variant])
    /\ \E ok \in BOOLEAN, opened \in BOOLEAN :
          /\ (ok => opened)
          /\ Log("save_test_to_file", variant, ok)
          /\ test_dir' = IF opened
                         THEN [exists |-> TRUE, files |-> test_dir.files \cup {TestFile(variant)}]
                         ELSE test_dir
          /\ IF StageAfterSave(variant, ok) = "skip" THEN NextRun(variant)
             ELSE pc' = StageAfterSave(variant, ok) /\ UNCHANGED variant
    /\ UNCHANGED << idle_vars, ret, rt, result_vars, call, source_code, test_code, results_dir,
                    built_from, invoked >>

\* the same lines with no test code: the variant is skipped
SkipVariant ==
    /\ pc = "save"
    /\ ~TruthyText(test_code[variant])
    /\ NextRun(variant)
    /\ UNCHANGED << idle_vars, ret, rt, result_vars, call, source_code, test_code, test_dir,
                    results_dir, built_from, trace, invoked >>

\* deobfuscate_tests (line 859): True for return code 0, False otherwise
DeobfuscateTests ==
    /\ pc = "deobf"
    /\ \E o \in Outcomes("deobfuscate") :
          /\ Invoke("deobfuscate", o)
          /\ Log("deobfuscate_tests", variant, o = "ok")
          /\ IF o = "ok" THEN pc' = "run" /\ UNCHANGED variant
             ELSE IF o = "blocked" THEN pc' = "blocked" /\ UNCHANGED variant
             ELSE NextRun(variant)
    /\ UNCHANGED << idle_vars, ret, rt, result_vars, call, source_code, test_code, test_dir,
                    results_dir, built_from >>

\* run_tests (lines 836, 848, 861): the runner either leaves the results
\* directory as it is or replaces its reports by those of this run, also
\* when the call of line 495 then raises or never ends; after a call that
\* returned the directory is parsed and reported, after one that raised
\* the handler of line 519 returns (False, None)
MainRunTests ==
    /\ pc = "run"
    /\ \E o \in Outcomes("test"), written \in BOOLEAN, listing \in RunnerListings :
          LET exists == written \/ dir_exists
              files  == IF written THEN listing ELSE dir_files
              owner  == IF written THEN variant ELSE dir_owner
              parsed == parse_test_results(exists, files)
              r      == run_tests(parsed, IF o = "ok" THEN 0 ELSE 1)
          IN  /\ (~written => listing = << >>)
              /\ Invoke("test", o)
              /\ dir_exists' = exists
              /\ dir_files' = files
              /\ dir_owner' = owner
              /\ IF o = "blocked"
                 THEN /\ pc' = "blocked"
                      /\ Log("run_tests", variant, FALSE)
                      /\ UNCHANGED << variant, ret, rt, result_vars, built_from >>
                 ELSE IF o = "raised"
                 THEN /\ rt' = RunFailed
                      /\ SetResults(variant, NoneVal)
                      /\ built_from' = [built_from EXCEPT ![variant] = "none"]
                      /\ Log("run_tests", variant, FALSE)
                      /\ NextRun(variant)
                      /\ UNCHANGED ret
                 ELSE /\ ret' = parsed
                      /\ rt' = r
                      /\ SetResults(variant, r.results)
                      /\ built_from' = [built_from EXCEPT
                                           ![variant] = IF Truthy(r.results) THEN owner ELSE "none"]
                      /\ Log("run_tests", variant, r.success)
                      /\ NextRun(variant)
    /\ UNCHANGED << idle_vars, call, source_code, test_code, test_dir >>

\* the caller's dicts are the objects the call worked on
PassArguments(v) ==
    LET after == ArgumentsAfter(original_results, ResultsOf(v))
    IN  /\ original_results' = after[1]
        /\ bodies_results' = IF v = "bodies" THEN after[2] ELSE bodies_results
        /\ names_results' = IF v = "names" THEN after[2] ELSE names_results

\* lines 870-871 for bodies and 873-874 for names: the comparison is called
\* when both ResultSets are truthy; an exception of the call ends the script
MainCompare ==
    /\ pc = "compare"
    /\ IF Truthy(original_results) /\ Truthy(ResultsOf(variant))
       THEN LET r == compare_test_results(original_results, ResultsOf(variant))
            IN  /\ call' = [fn |-> "compare_test_results", original |-> original_results,
                            other |-> ResultsOf(variant), result |-> r]
                /\ PassArguments(variant)
                /\ Log("compare_test_results", variant, r.exc = "none")
                /\ IF r.exc # "none" THEN pc' = "crashed" /\ UNCHANGED variant
                   ELSE IF variant = "bodies" THEN Goto("compare", "names")
                   ELSE Goto("table", "none")
       ELSE /\ UNCHANGED << call, trace, result_vars >>
            /\ IF variant = "bodies" THEN Goto("compare", "names") ELSE Goto("table", "none")
    /\ UNCHANGED << idle_vars, ret, rt, source_code, test_code, test_dir, results_dir,
                    built_from, invoked >>

\* line 877
MainTable ==
    /\ pc = "table"
    /\ call' = [fn |-> "print_test_comparison_table",
                result |-> print_test_comparison_table(original_results, bodies_results,
                                                       names_results)]
    /\ Log("print_test_comparison_table", "none", TRUE)
    /\ pc' = "done"
    /\ UNCHANGED << idle_vars, ret, rt, result_vars, variant, source_code, test_code, test_dir,
                    results_dir, built_from, invoked >>

NextMain ==
    \/ GradlewClean
    \/ GetAndPrintCode
    \/ GenerateTestsWithLlm
    \/ SkipGeneration
    \/ ExecuteGradleObfuscation
    \/ CleanTestDirectory
    \/ SaveTestToFile
    \/ SkipVariant
    \/ DeobfuscateTests
    \/ MainRunTests
    \/ MainCompare
    \/ MainTable

SpecMain == InitMain /\ [][NextMain]_vars

(* ------------------------------------------ the comparison functions *)
\* the directories the compared ResultSets are parsed from
CompareListings ==
    { q \in Listings : Len(q) <= 1 }
        \cup { << Doc1, Doc2 >>, << Doc2, DocError >>, << DocEmpty, DocPass >>,
               << DocBadErrors, DocBoth >>, << Doc1, DocError >>, << DocError, Doc1 >> }

\* None, or a value parse_test_results returns
ResultChoices == {NoneVal} \cup { parse_test_results(TRUE, q) : q \in CompareListings }

\* the values run_tests can return to the main script: None, or a dict the
\* detailed report did not fail on
MainResults(r) == IF Truthy(r) THEN r.total # 0 ELSE TRUE

\* either a direct call of one of the functions is about to be made, or the
\* main script is at line 869 with the three values its runs returned
InitCompare ==
    /\ dir_exists = FALSE
    /\ dir_files = << >>
    /\ pc \in {"main", "compare"}
    /\ xml_files = << >>
    /\ i = 0
    /\ j = 0
    /\ results = NoneVal
    /\ logged = << >>
    /\ ret = NoneVal
    /\ report = NotCalled
    /\ rt = NotRun
    /\ original_results \in ResultChoices
    /\ bodies_results \in ResultChoices
    /\ names_results \in ResultChoices
    /\ (pc = "compare" =>
           MainResults(original_results) /\ MainResults(bodies_results)
               /\ MainResults(names_results))
    /\ call = NoCall
    /\ variant = IF pc = "compare" THEN "bodies" ELSE "none"
    /\ source_code = NoneVal
    /\ test_code = NoTestCode
    /\ test_dir = [exists |-> FALSE, files |-> {}]
    /\ dir_owner = "none"
    /\ built_from = NotBuilt
    /\ trace = << >>
    /\ invoked = {}

\* get_metric_value(results, metric) on one of the three values
GetMetricValue ==
    /\ pc = "main"
    /\ \E r \in {original_results, bodies_results, names_results} :
       \E m \in { MetricNames[k] : k \in DOMAIN MetricNames } \cup {"Other"} :
          call' = [fn |-> "get_metric_value", results |-> r, metric |-> m,
                   value |-> get_metric_value(r, m)]
    /\ pc' = "called"
    /\ UNCHANGED << parser_vars, original_results, bodies_results, names_results, main_vars >>

\* compare_test_results(original, other, name) for other = bodies or names
CompareTestResults ==
    /\ pc = "main"
    /\ \E v \in {"bodies", "names"} :
          /\ call' = [fn |-> "compare_test_results", original |-> original_results,
                      other |-> ResultsOf(v),
                      result |-> compare_test_results(original_results, ResultsOf(v))]
          /\ PassArguments(v)
    /\ pc' = "called"
    /\ UNCHANGED << parser_vars, main_vars >>

\* print_test_comparison_table(original, bodies, names)
PrintTestComparisonTable ==
    /\ pc = "main"
    /\ call' = [fn |-> "print_test_comparison_table",
                result |-> print_test_comparison_table(original_results, bodies_results,
                                                       names_results)]
    /\ pc' = "called"
    /\ UNCHANGED << parser_vars, original_results, bodies_results, names_results, main_vars >>

NextCompare ==
    \/ GetMetricValue
    \/ CompareTestResults
    \/ PrintTestComparisonTable
    \/ MainCompare
    \/ MainTable

SpecCompare == InitCompare /\ [][NextCompare]_vars

(* ================================================================ claims *)
Returned == pc \in {"returned", "ran", "reported"}

\* the try body raises for this document
Fails(doc) == ParseDoc(EmptyResults, doc).raised

\* what one document adds to a fresh dict
Contribution(doc) == ParseDoc(EmptyResults, doc).results

RECURSIVE SumSeq(_)
SumSeq(q) == IF q = << >> THEN 0 ELSE Head(q) + SumSeq(Tail(q))

\* the sum of F over the documents of q
SumOver(q, F(_)) == SumSeq([k \in DOMAIN q |-> F(q[k])])

\* the float sum of the doubles of q, added to t from left to right
RECURSIVE TimeSum(_, _)
TimeSum(t, q) == IF q = << >> THEN t ELSE TimeSum(AddTime(t, Head(q)), Tail(q))

\* C1: in every ResultSet parse_test_results returns, also when documents
\* failed part-way, passed + failed + skipped = total.
C1_CountsAddUp ==
    (Returned /\ Truthy(ret)) => ret.passed + ret.failed + ret.skipped = ret.total

C1_Witness ==
    /\ pc = "returned" /\ Truthy(ret)
    /\ Len(logged) > 0 /\ ret.total > 0 /\ ret.skipped > 0 /\ ret.failed > 0

\* the four count attributes of a document are non-negative integers
CountsAreNaturals(doc) ==
    /\ doc.wf
    /\ \A v \in {doc.tests, doc.failures, doc.errors, doc.skipped} :
          v \in DOMAIN IntTable /\ IntTable[v] >= 0

\* C2 (as claimed): for documents whose tests, failures, errors and skipped
\* attributes are non-negative integers, total, passed, failed and skipped
\* of the returned ResultSet are all non-negative.
C2_Original ==
    (Returned /\ Truthy(ret) /\ \A k \in DOMAIN xml_files : CountsAreNaturals(xml_files[k]))
        => (ret.total >= 0 /\ ret.passed >= 0 /\ ret.failed >= 0 /\ ret.skipped >= 0)

\* failures + errors + skipped does not exceed tests
CountsConsistent(doc) ==
    IntTable[doc.failures] + IntTable[doc.errors] + IntTable[doc.skipped] <= IntTable[doc.tests]

\* C2 (amended): for such documents total, failed and skipped are
\* non-negative, and passed is non-negative when in every document
\* failures + errors + skipped <= tests.
C2_NonNegative ==
    (Returned /\ Truthy(ret) /\ \A k \in DOMAIN xml_files : CountsAreNaturals(xml_files[k]))
        => /\ ret.total >= 0 /\ ret.failed >= 0 /\ ret.skipped >= 0
           /\ (\A k \in DOMAIN xml_files : CountsConsistent(xml_files[k])) => ret.passed >= 0

C2_Witness ==
    /\ pc = "returned" /\ Truthy(ret) /\ Len(xml_files) >= 2
    /\ \A k \in DOMAIN xml_files :
          CountsAreNaturals(xml_files[k]) /\ CountsConsistent(xml_files[k])
    /\ ret.passed = 0 /\ ret.failed > 0 /\ ret.skipped > 0

\* C3: a test case with a failure or error child and a skipped child is
\* recorded with status FAILED.
C3_FailureWins ==
    (pc = "cases" /\ j > 1) =>
        LET c == xml_files[i].cases[j - 1]
        IN  ((c.failure \/ c.error) /\ c.skipped)
                => results.tests[Len(results.tests)].status = "FAILED"

\* every conversion of the document succeeds
WellFormed(doc) ==
    /\ doc.wf
    /\ CanInt(doc.tests) /\ CanInt(doc.failures) /\ CanInt(doc.errors) /\ CanInt(doc.skipped)
    /\ CanFloat(doc.time)
    /\ \A k \in DOMAIN doc.cases : CanFloat(doc.cases[k].time)

TestsOf(doc) == AttrInt(doc.tests)

FailuresAndErrorsOf(doc) == AttrInt(doc.failures) + AttrInt(doc.errors)

SkippedOf(doc) == AttrInt(doc.skipped)

TimeOf(doc) == AttrFloat(doc.time)

\* C4: for well-formed documents total = sum of tests, failed = sum of
\* failures + errors, skipped = sum of skipped, total_time = the float sum
\* of time in listing order, passed = total - failed - skipped; doc1 and
\* doc2 of the spec give 5, 3, 1, 1 and 1.9.
C4_Sums ==
    (Returned /\ Truthy(ret) /\ \A k \in DOMAIN xml_files : WellFormed(xml_files[k]))
        => /\ ret.total = SumOver(xml_files, TestsOf)
           /\ ret.failed = SumOver(xml_files, FailuresAndErrorsOf)
           /\ ret.skipped = SumOver(xml_files, SkippedOf)
           /\ ret.total_time = TimeSum(IntZeroTime, [k \in DOMAIN xml_files |-> TimeOf(xml_files[k])])
           /\ ret.passed = ret.total - ret.failed - ret.skipped
           /\ (xml_files \in { << Doc1, Doc2 >>, << Doc2, Doc1 >> }
                 => /\ ret.total = 5 /\ ret.passed = 3 /\ ret.failed = 1 /\ ret.skipped = 1
                    /\ ret.total_time.ty = "float"
                    /\ [hi |-> ret.total_time.hi, lo |-> ret.total_time.lo] = FloatTable["1.9"])

C4_Witness ==
    /\ pc = "returned" /\ Truthy(ret)
    /\ xml_files = << Doc1, Doc2 >>
    /\ ret.total = 5 /\ Len(ret.tests) = 5

\* the documents of q whose processing does not fail, in order
RECURSIVE WithoutFailing(_)
WithoutFailing(q) ==
    IF q = << >> THEN << >>
    ELSE IF Fails(Head(q)) THEN WithoutFailing(Tail(q))
         ELSE << Head(q) >> \o WithoutFailing(Tail(q))

\* C5: a document whose processing fails contributes nothing: the
\* ResultSet equals the one obtained from the other documents alone.
C5_FailedDocContributesNothing ==
    (Returned /\ Truthy(ret)) => ret = parse_test_results(TRUE, WithoutFailing(xml_files))

RECURSIVE TestsOver(_, _)
TestsOver(q, k) ==
    IF k > Len(q) THEN << >> ELSE Contribution(q[k]).tests \o TestsOver(q, k + 1)

ContributedTotal(doc) == Contribution(doc).total

ContributedFailed(doc) == Contribution(doc).failed

ContributedSkipped(doc) == Contribution(doc).skipped

RECURSIVE FailingNames(_)
FailingNames(q) ==
    IF q = << >> THEN << >>
    ELSE (IF Fails(Head(q)) THEN << Head(q).file >> ELSE << >>) \o FailingNames(Tail(q))

\* C6: an error in one document is logged and every other document of the
\* directory is still processed; parse_test_results returns a ResultSet.
C6_ErrorsAreLocal ==
    (Returned /\ dir_exists)
        => /\ Truthy(ret)
           /\ i = Len(xml_files) + 1
           /\ logged = FailingNames(xml_files)
           /\ ret.total = SumOver(xml_files, ContributedTotal)
           /\ ret.failed = SumOver(xml_files, ContributedFailed)
           /\ ret.skipped = SumOver(xml_files, ContributedSkipped)
           /\ ret.tests = TestsOver(xml_files, 1)

C6_Witness ==
    /\ pc = "returned" /\ Truthy(ret)
    /\ Len(xml_files) = 3
    /\ Fails(xml_files[1]) /\ ~Fails(xml_files[2]) /\ Fails(xml_files[3])
    /\ Len(logged) = 2
    /\ Len(Contribution(xml_files[2]).tests) > 0
    /\ Len(ret.tests) >= Len(Contribution(xml_files[2]).tests)

\* C7: with the directory missing, or present without any .xml file,
\* run_tests treats the value returned as absent and does not fail.
C7_NoResultsTreatedAsAbsent ==
    (pc = "ran" /\ (~dir_exists \/ xml_files = << >>))
        => (rt.exc = "none" /\ rt.out = "no_detail")

\* C8: print_detailed_test_report with a missing ResultSet or with
\* total = 0 prints a placeholder and raises nothing.
C8_ReportToleratesZeroTotal ==
    (pc = "reported" /\ (~Truthy(ret) \/ ret.total = 0))
        => (report.exc = "none" /\ report.out \in {"notice", "summary"})

\* v is the pass rate of res: passed / total * 100 for total > 0, the int 0
\* for total = 0
IsPassRateOf(v, res) ==
    IF res.total = 0 THEN v = PyInt(0)
    ELSE /\ v.ty = "float"
         /\ v.den > 0
         /\ v.num * res.total = res.passed * v.den

\* the ResultSets of the printed summary line, by pair
SummarySides(pair) ==
    IF pair = "bodies/original" THEN << bodies_results, original_results >>
    ELSE IF pair = "names/original" THEN << names_results, original_results >>
    ELSE << bodies_results, names_results >>

\* C9: in compare_test_results, get_metric_value and the pairwise summary
\* of print_test_comparison_table the pass rate of a present ResultSet is
\* passed / total * 100 for total > 0 and exactly 0 for total = 0, and no
\* division by a zero total is evaluated.
C9_PassRate ==
    /\ (call.fn = "get_metric_value" /\ call.metric = "Pass Rate (%)" /\ Truthy(call.results))
          => IsPassRateOf(call.value, call.results)
    /\ (call.fn = "compare_test_results" /\ Truthy(call.original) /\ Truthy(call.other))
          => /\ call.result.exc # "ZeroDivisionError"
             /\ call.result.out = "table"
             /\ IsPassRateOf(call.result.metrics[5][2], call.original)
             /\ IsPassRateOf(call.result.metrics[5][3], call.other)
    /\ call.fn = "print_test_comparison_table"
          => \A k \in DOMAIN call.result.summary :
                LET line == call.result.summary[k]
                IN  /\ IsPassRateOf(line.first_rate, SummarySides(line.pair)[1])
                    /\ IsPassRateOf(line.second_rate, SummarySides(line.pair)[2])

C9_Witness ==
    /\ call.fn = "get_metric_value" /\ call.metric = "Pass Rate (%)"
    /\ Truthy(call.results) /\ call.results.total = 0
    /\ call.value = PyInt(0)
    /\ \E r \in {original_results, bodies_results, names_results} :
          Truthy(r) /\ r.total > r.passed /\ r.passed > 0

Totals(r) == << r.total, r.passed, r.failed, r.skipped >>

Reorderings(q) ==
    { p \in [DOMAIN q -> { q[k] : k \in DOMAIN q }] : \A k \in DOMAIN q : \E m \in DOMAIN q : p[m] = q[k] }

\* C10 (as claimed): every permutation of the listing gives the same
\* total, passed, failed, skipped and total_time.
C10_Original ==
    (Returned /\ Truthy(ret)) =>
        \A p \in Reorderings(xml_files) :
            LET r == parse_test_results(TRUE, p)
            IN  Totals(r) = Totals(ret) /\ r.total_time = ret.total_time

\* C10 (amended): every permutation of the listing gives the same total,
\* passed, failed and skipped, and the same total_time when the listing
\* has at most two documents.
C10_CountsCommute ==
    (Returned /\ Truthy(ret)) =>
        \A p \in Reorderings(xml_files) :
            LET r == parse_test_results(TRUE, p)
            IN  /\ Totals(r) = Totals(ret)
                /\ Len(xml_files) <= 2 => r.total_time = ret.total_time

C10_Witness ==
    /\ pc = "returned" /\ Truthy(ret)
    /\ Len(xml_files) = 3
    /\ \A k \in DOMAIN xml_files : ~Fails(xml_files[k]) /\ TestsOf(xml_files[k]) > 0
    /\ \E p \in Reorderings(xml_files) :
          /\ p # xml_files
          /\ parse_test_results(TRUE, p).total_time # ret.total_time
          /\ Totals(parse_test_results(TRUE, p)) = Totals(ret)

(* ---------------------------------------------------------------- C11 *)
\* a difference of the metric table is zero
IsZeroDiff(d) ==
    IF d.ty = "int" THEN d.num = 0
    ELSE IF "hi" \in DOMAIN d THEN d.hi = 0 /\ d.lo = 0
    ELSE d.minuend.num * d.subtrahend.den = d.subtrahend.num * d.minuend.den

\* compare_test_results was called with a present ResultSet on both sides
Compared ==
    /\ pc = "called"
    /\ call.fn = "compare_test_results"
    /\ Truthy(call.original)
    /\ Truthy(call.other)

\* C11: comparing a ResultSet with itself completes and reports a zero
\* difference for each of the six metrics, no identity that is on one side
\* only, and no status transition.
C11_SelfComparison ==
    (Compared /\ call.other = call.original) =>
        /\ call.result.exc = "none"
        /\ Len(call.result.printed) = Len(MetricNames)
        /\ \A k \in DOMAIN call.result.printed : IsZeroDiff(call.result.printed[k][4])
        /\ call.result.identities = NoIdentities

\* a ResultSet with tests of every status and two tests of one identity was
\* compared with itself
C11_Witness ==
    /\ Compared
    /\ call.other = call.original
    /\ call.original.total > 0
    /\ \E a, b \in DOMAIN call.original.tests :
          /\ a # b
          /\ TestKey(call.original.tests[a]) = TestKey(call.original.tests[b])
          /\ call.original.tests[a].status # call.original.tests[b].status

(* ---------------------------------------------------------------- C12 *)
\* the identities of a ResultSet, and the statuses recorded for one
Identities(res) == { TestKey(res.tests[n]) : n \in DOMAIN res.tests }

StatusesOf(res, k) ==
    { res.tests[n].status : n \in { n \in DOMAIN res.tests : TestKey(res.tests[n]) = k } }

KeyIndex(k) == CHOOSE n \in DOMAIN KeyOrder : KeyOrder[n] = k

\* the lines of a list start with strictly ascending identities
AscendingKeys(q) == \A a, b \in DOMAIN q : a < b => KeyIndex(q[a][1]) < KeyIndex(q[b][1])

Range(q) == { q[n] : n \in DOMAIN q }

\* C12: for any two present ResultSets the comparison completes, every
\* metric difference is other - base, the identities listed for a side are
\* exactly those of that side that the other side lacks, and the transitions
\* listed are exactly (identity, base status, other status) of the common
\* identities whose statuses differ, in ascending identity order.
C12_Comparison ==
    Compared =>
        LET r == call.result
            common == Identities(call.original) \cap Identities(call.other)
        IN  /\ r.exc = "none"
            /\ Len(r.printed) = Len(MetricNames)
            /\ \A k \in DOMAIN r.printed :
                  (r.printed[k][2].ty = "int" /\ "num" \in DOMAIN r.printed[k][2]) =>
                      r.printed[k][4] = PyInt(r.printed[k][3].num - r.printed[k][2].num)
            /\ { l[1] : l \in Range(r.identities.original_unique) }
                  = Identities(call.original) \ Identities(call.other)
            /\ { l[1] : l \in Range(r.identities.other_unique) }
                  = Identities(call.other) \ Identities(call.original)
            /\ { l[1] : l \in Range(r.identities.status_changes) }
                  = { k \in common : StatusesOf(call.original, k) # StatusesOf(call.other, k) }
            /\ \A l \in Range(r.identities.status_changes) :
                  /\ l[2] \in StatusesOf(call.original, l[1])
                  /\ l[3] \in StatusesOf(call.other, l[1])
                  /\ l[2] # l[3]
            /\ AscendingKeys(r.identities.status_changes)

(* ---------------------------------------------------------------- C13 *)
\* C13: in every ResultSet parse_test_results returns, no two entries of
\* the tests list have the same (class, name) identity.
C13_UniqueIdentity ==
    (Returned /\ Truthy(ret)) =>
        \A a, b \in DOMAIN ret.tests :
            a # b => TestKey(ret.tests[a]) # TestKey(ret.tests[b])

(* ---------------------------------------------------------------- C14 *)
\* C14: for every pair of present ResultSets that parse_test_results can
\* return, also with total = 0 or with no document folded in,
\* compare_test_results runs to completion: no exception leaves it.
C14_CompareNeverRaises == Compared => call.result.exc = "none"

(* ---------------------------------------------------------------- C15 *)
\* the per-test rows were printed
Reported == pc = "reported" /\ report.out = "summary"

\* the order of the status groups in the report
GroupOrder == << "FAILED", "SKIPPED", "PASSED" >>

GroupIndex(st) == CHOOSE n \in DOMAIN GroupOrder : GroupOrder[n] = st

\* the tests of one status and one time, in the order of the list
SameKey(q, st, tm) == SelectSeq(q, LAMBDA t : t.status = st /\ t.time = tm)

\* C15: the rows of print_detailed_test_report are the tests of the
\* ResultSet with every FAILED test before every SKIPPED test before every
\* PASSED test, within a status by non-increasing time, and tests of equal
\* status and time in the order they have in the ResultSet.
C15_ReportOrder ==
    Reported =>
        /\ Len(report.rows) = Len(ret.tests)
        /\ \A a, b \in DOMAIN report.rows :
              a < b =>
                  /\ GroupIndex(report.rows[a].status) <= GroupIndex(report.rows[b].status)
                  /\ report.rows[a].status = report.rows[b].status =>
                         ~FLess(report.rows[a].time, report.rows[b].time)
        /\ \A t \in Range(ret.tests) :
              SameKey(report.rows, t.status, t.time) = SameKey(ret.tests, t.status, t.time)

\* a report of FAILED, SKIPPED and PASSED tests, two of them different tests
\* of equal status and time, whose rows are not in the order of the list
C15_Witness ==
    /\ Reported
    /\ { t.status : t \in Range(report.rows) } = Range(GroupOrder)
    /\ report.rows # ret.tests
    /\ \E a, b \in DOMAIN ret.tests :
          /\ a < b
          /\ ret.tests[a].status = ret.tests[b].status
          /\ ret.tests[a].time = ret.tests[b].time
          /\ ret.tests[a].name # ret.tests[b].name

(* ---------------------------------------------------------------- C16 *)
\* what a call that only printed the notice returns
OnlyNotice ==
    [out |-> "notice", metrics |-> << >>, exc |-> "none", printed |-> << >>,
     identities |-> NoIdentities]

\* C16: compare_test_results called with an absent ResultSet on either
\* side prints only the notice, computes no metric row and no identity
\* list, and raises nothing; and every comparison the main script made had
\* a present ResultSet on both sides.
C16_AbsentSide ==
    /\ (pc = "called" /\ call.fn = "compare_test_results"
           /\ (~Truthy(call.original) \/ ~Truthy(call.other)))
          => call.result = OnlyNotice
    /\ \A k \in DOMAIN trace :
          trace[k].fn = "compare_test_results"
              => Truthy(original_results) /\ Truthy(ResultsOf(trace[k].variant))

\* the function was called with a present original and an absent other side
C16_Witness ==
    /\ pc = "called"
    /\ call.fn = "compare_test_results"
    /\ Truthy(call.original)
    /\ ~Truthy(call.other)
    /\ call.result.out = "notice"

\* the main script reached its last line having compared the names variant
\* and not the absent bodies variant
C16_MainSkipsAbsentPair ==
    /\ pc = "done"
    /\ Truthy(original_results)
    /\ ~Truthy(bodies_results)
    /\ Truthy(names_results)
    /\ { trace[k].variant : k \in { k \in DOMAIN trace : trace[k].fn = "compare_test_results" } }
          = {"names"}

(* ---------------------------------------------------------------- C17 *)
\* C17: a call of compare_test_results leaves the ResultSets it was given
\* as they were: after the call the three values of the caller are the
\* values from before the call.
C17_InputsUnchanged ==
    [][ (call' # call /\ call'.fn = "compare_test_results")
            => /\ original_results' = original_results
               /\ bodies_results' = bodies_results
               /\ names_results' = names_results ]_vars

\* a completed comparison of two ResultSets whose tests are not in the
\* order of the report and of which one status changed
C17_Witness ==
    /\ Compared
    /\ call.result.exc = "none"
    /\ call.result.identities.status_changes # << >>
    /\ call.original.tests # SortedTests(call.original.tests)
    /\ original_results = call.original

(* ---------------------------------------------------------------- C18 *)
\* C18: every invocation of an external collaborator (gradlew clean,
\* spoonObfuscate, deobfuscate, test, the generation request) is made with
\* an explicit timeout.
C18_EveryInvocationHasTimeout == \A c \in invoked : c.timeout # NoneVal

(* ---------------------------------------------------------------- C19 *)
\* C19: the ResultSet run_tests returned for a variant was parsed from
\* reports written by that variant's own run of the tests, never from
\* reports an earlier run left in the results directory.
C19_OwnReportsOnly ==
    \A v \in Range(Variants) : Truthy(ResultsOf(v)) => built_from[v] = v

(* ---------------------------------------------------------------- C20 *)
\* the positions of the calls of fn for variant v in the trace
CallsOf(fn, v) == { k \in DOMAIN trace : trace[k].fn = fn /\ trace[k].variant = v }

\* C20: run_tests is invoked for a variant only after test code was
\* generated for it and save_test_to_file returned success, and for the
\* names variant only after deobfuscate_tests then returned success; a
\* variant for which run_tests was not invoked has an absent ResultSet; and
\* every save_test_to_file is directly preceded by the clean_test_directory
\* of its variant, which comes after every test run made before.
C20_RunOnlyAfterSave ==
    \A v \in Range(Variants) :
        /\ \A k \in CallsOf("run_tests", v) :
              /\ TruthyText(test_code[v])
              /\ \E s \in CallsOf("save_test_to_file", v) :
                    /\ s < k
                    /\ trace[s].ok
                    /\ v = "names" =>
                          \E d \in CallsOf("deobfuscate_tests", v) : s < d /\ d < k /\ trace[d].ok
        /\ CallsOf("run_tests", v) = {} => ~Truthy(ResultsOf(v))
        /\ \A s \in CallsOf("save_test_to_file", v) :
              /\ s > 1
              /\ trace[s - 1].fn = "clean_test_directory"
              /\ trace[s - 1].variant = v
              /\ \A u \in Range(Variants) : \A k \in CallsOf("run_tests", u) :
                    k < s => k < s - 1

\* the script ended with the tests of the original and of the names variant
\* run, and the bodies variant skipped after a failed save
C20_Witness ==
    /\ pc = "done"
    /\ CallsOf("run_tests", "original") # {}
    /\ CallsOf("run_tests", "names") # {}
    /\ CallsOf("run_tests", "bodies") = {}
    /\ \E s \in CallsOf("save_test_to_file", "bodies") : ~trace[s].ok

(* ---------------------------------------------------------------- C21 *)
\* every external invocation made so far returned: none raised, and none
\* was left without an answer
AllReturned == \A c \in invoked : c.returned

\* the script has executed its last statement, or an exception left it, or
\* it waits for an invocation that never answers
Ended == pc \in {"done", "crashed", "blocked"}

\* the column of a variant in a row of the comparison table
ColumnOf(v) == IF v = "original" THEN 1 ELSE IF v = "bodies" THEN 2 ELSE 3

\* an execution whose external invocations all returned ends with
\* print_test_comparison_table as its last call, called once, and the
\* function is not called before the end
C21_TableCalledOnce ==
    /\ Cardinality(CallsOf("print_test_comparison_table", "none")) <= 1
    /\ (AllReturned /\ Ended) =>
          /\ pc = "done"
          /\ CallsOf("print_test_comparison_table", "none") = {Len(trace)}
          /\ call.fn = "print_test_comparison_table"

\* in the table printed at the end every metric of an absent ResultSet is
\* shown as N/A
C21_AbsentShownAsNA ==
    (AllReturned /\ pc = "done") =>
        \A v \in Range(Variants) :
            ~Truthy(ResultsOf(v)) =>
                /\ call.result.out = "table"
                /\ \A k \in DOMAIN MetricNames :
                      call.result.rows[k][ColumnOf(v)] = [text |-> "N/A"]

\* at the end the first stage and the clean_test_directory of every variant
\* were attempted, and every later stage of a variant whose own previous
\* stage succeeded was attempted, whatever happened to the other variants
C21_StagesAttempted ==
    (AllReturned /\ Ended) =>
        \A v \in Range(Variants) :
            /\ IF v = "original" THEN CallsOf("get_and_print_code", v) # {}
               ELSE CallsOf("execute_gradle_obfuscation", v) # {}
            /\ (\E k \in CallsOf("execute_gradle_obfuscation", v) : trace[k].ok)
                  => CallsOf("get_and_print_code", v) # {}
            /\ CallsOf("clean_test_directory", v) # {}
            /\ (\E k \in CallsOf("generate_tests_with_llm", v) : trace[k].ok)
                  => CallsOf("save_test_to_file", v) # {}
            /\ (\E k \in CallsOf("save_test_to_file", v) : trace[k].ok)
                  => CallsOf(IF v = "names" THEN "deobfuscate_tests" ELSE "run_tests", v) # {}
            /\ (\E k \in CallsOf("deobfuscate_tests", v) : trace[k].ok)
                  => CallsOf("run_tests", v) # {}

\* no call of clean_test_directory was left by an exception
CleanNeverRaised ==
    \A k \in DOMAIN trace : trace[k].fn = "clean_test_directory" => trace[k].ok

\* the stages are attempted as above in every execution that no exception
\* of clean_test_directory ended
C21_StagesAttemptedUnlessCleanRaises == CleanNeverRaised => C21_StagesAttempted

\* C21: every execution of the main script in which the external calls
\* return ends by calling print_test_comparison_table exactly once, with
\* each absent ResultSet shown as N/A, and a failure in the stages of one
\* variant never prevents the stages of the other variants from being
\* attempted.
C21_MainEndsWithTable ==
    /\ C21_TableCalledOnce
    /\ C21_AbsentShownAsNA
    /\ C21_StagesAttempted

====
